---- MODULE Spec2Model ----
(***************************************************************************)
(* A model of the PGN game-analysis utility: cga.py (score differential,   *)
(* engine-driving loop, multi-PV ranking, per-game and per-player          *)
(* averages), ap.py (CSV report per half-move), the steps of their main    *)
(* (player search, engine lifecycle) and chesscom.py (queries of the       *)
(* chess.com API and the FENs of the games to move).                       *)
(*                                                                         *)
(* Python values are modelled as follows.  None is the empty tuple and a   *)
(* present value x is the 1-tuple <<x>>; a chess.uci.Score is the record   *)
(* [cp, mate] of two such optional integers.  A float is an exact fraction *)
(* [num, den].  A raised exception is a record [exc |-> name].             *)
(***************************************************************************)
EXTENDS Integers, Sequences, FiniteSets, TLC

VARIABLES
    \* ---- Move._cp_diff_calculation applied to one pair of scores
    cp,             \* argument cp: score of the move
    bm_cp,          \* argument bm_cp: score of the best move
    diff_score,     \* the value returned (or the exception raised)
    dpc             \* "call" before the call, "return" after it

diffVars == <<cp, bm_cp, diff_score, dpc>>

VARIABLES
    \* ---- cga.analyze_game(game, machine, tpm) on one game
    game,           \* the main line of the game: the SAN of each ply
    engine_multipv, \* the engine's MultiPV option after set_multi_pv(3)
    info_handlers,  \* number of handlers in machine.engine.info_handlers
    uci_sent,       \* the commands sent to the engine, in order
    pending,        \* go requests sent and not yet answered
    engine_log,     \* the requests made to the engine, with its answers
    node,           \* number of plies of the main line before node
    board,          \* number of main-line plies played on board
    stats_info,     \* stats.info: pv (first move of each line) and score[1]
    cp_score,       \* score carried over from the previous recorded move
    white_moves,    \* list of Move
    black_moves,    \* list of Move
    analysed,       \* history: each Move created, with the ply it was made for
    analyzed_game,  \* Game.analyzed_game after store_analyzed_game
    apc             \* "call", "loop" or "return"

analyzeVars == <<game, engine_multipv, info_handlers, uci_sent, pending,
                 engine_log, node, board,
                 stats_info, cp_score, white_moves, black_moves, analysed,
                 analyzed_game, apc>>

VARIABLES
    \* ---- cga.Player, fed by insert_game with analysed games
    name,           \* Player.name
    all_games,      \* Player.all_games: list of Game
    number_plys,    \* Player.number_plys
    engine_stats,   \* Player.engine_stats
    cp_avg,         \* Player.cp_avg
    diff_avg,       \* Player.diff_avg
    position_avg,   \* Player.position_avg
    top_3_avg,      \* Player.top_3_avg
    raised          \* None, or the exception that ended the run

playerVars == <<name, all_games, number_plys, engine_stats, cp_avg, diff_avg,
                position_avg, top_3_avg, raised>>

VARIABLES
    \* ---- ap.main from the analysis loop on: analyze_game, output_result
    ap_player,          \* player_name returned by find_player
    ap_games,           \* games_of_the_player: headers and main line
    ap_all_games,       \* len(all_games), the games read from the file
    plys,               \* args.ply: the depths asked for
    game_number,        \* main: number of the game analysed next
    paired_moves,       \* analyze_game: game_to_paired_list(game)
    position,           \* analyze_game: pairs of paired_moves gone through
    ap_board,           \* analyze_game: the moves pushed on board
    previous_black_move,
    ap_analyzed_game,   \* analyze_game: the rows of the game
    ap_analysed,        \* history: each call of analyze_move, with the board
    all_analyzed_games, \* main: the rows of every game analysed
    ap_engine,          \* the engine: its position, go requests, state
    csv_lines,          \* output_result: the lines written, header first
    printed_averages,   \* output_result: the averages printed per depth
    ap_raised,          \* None, or the exception that ended the run
    ap_pc

apVars == <<ap_player, ap_games, ap_all_games, plys, game_number, paired_moves,
            position, ap_board, previous_black_move, ap_analyzed_game,
            ap_analysed, all_analyzed_games, ap_engine, csv_lines,
            printed_averages, ap_raised, ap_pc>>

VARIABLES
    \* ---- main of cga.py and of ap.py: the steps of a run
    program,            \* "cga" or "ap"
    pgn_games,          \* all_games: the headers of the games read
    player_arg,         \* args.player
    player_name,        \* find_player: the name found, or the empty list
    games_to_analyze,   \* find_player: the games returned
    listing,            \* find_player: the names listed as 'Several players'
    messages,           \* what the run has logged or printed, in order
    engine_isfile,      \* os.path.isfile(args.engine)
    engine,             \* the engine subprocess: times opened, quit, asked
    games_done,         \* games the analysis loop has gone through
    no_plys,            \* cga: Player.number_plys is 0; ap: no row yet
    exit_status,        \* None, or the status the run exited with
    main_raised,        \* None, or the exception that ended the run
    main_pc             \* the step main is at

mainVars == <<program, pgn_games, player_arg, player_name, games_to_analyze,
              listing, messages, engine_isfile, engine, games_done, no_plys,
              exit_status, main_raised, main_pc>>

VARIABLES
    \* ---- chesscom.py: one query of ChessCom through _get_from_url
    cc_path,            \* the path of the URL under URL_ROOT/<user>
    cc_response,        \* what the server does with the request
    json_data,          \* _get_from_url: the local json_data, None if unbound
    cc_printed,         \* what was printed
    cc_result,          \* None, or what the call returned or raised
    cc_pc               \* "call" or "done"

chessVars == <<cc_path, cc_response, json_data, cc_printed, cc_result, cc_pc>>

VARIABLES
    \* ---- chesscom.py: ChessCom.get_fen_to_move
    to_move_response,   \* what the server does with the games/to-move query
    current_response,   \* what the server does with the games query
    games_to_move,      \* the local games_to_move, None before it is bound
    current_games,      \* the local current_games, None before it is bound
    fen_to_move,        \* the list built by the loops
    fen_index,          \* games of games_to_move['games'] gone through
    fen_printed,        \* what was printed
    fen_result,         \* None, or what the call returned or raised
    fen_pc              \* the statement get_fen_to_move is at

fenVars == <<to_move_response, current_response, games_to_move, current_games,
             fen_to_move, fen_index, fen_printed, fen_result, fen_pc>>

vars == <<diffVars, analyzeVars, playerVars, apVars, mainVars, chessVars,
          fenVars>>

\* what the actions of one part leave alone
notDiffVars ==
    <<analyzeVars, playerVars, apVars, mainVars, chessVars, fenVars>>
notAnalyzeVars ==
    <<diffVars, playerVars, apVars, mainVars, chessVars, fenVars>>
notPlayerVars ==
    <<diffVars, analyzeVars, apVars, mainVars, chessVars, fenVars>>
notApVars ==
    <<diffVars, analyzeVars, playerVars, mainVars, chessVars, fenVars>>
notMainVars ==
    <<diffVars, analyzeVars, playerVars, apVars, chessVars, fenVars>>
notChessVars ==
    <<diffVars, analyzeVars, playerVars, apVars, mainVars, fenVars>>
notFenVars ==
    <<diffVars, analyzeVars, playerVars, apVars, mainVars, chessVars>>

-----------------------------------------------------------------------------
(* Python values *)

None == <<>>
Some(x) == <<x>>
Val(o) == o[1]

\* chess.uci.Score(cp, mate)
Score(c, m) == [cp |-> c, mate |-> m]

\* an exception raised instead of a value returned
Raise(exception) == [exc |-> exception]
IsRaise(v) == DOMAIN v = {"exc"}

-----------------------------------------------------------------------------
(* Bounds of the inputs *)

\* centipawn values range over -MaxCp..MaxCp
MaxCp == 2
\* mate-in-N values range over -MaxMate..MaxMate without 0
MaxMate == 2

OptCp == {None} \cup {Some(c) : c \in -MaxCp..MaxCp}
OptMate == {None} \cup {Some(m) : m \in (-MaxMate..MaxMate) \ {0}}

\* every Score tuple, the one with neither field set included
AllScores == {Score(c, m) : c \in OptCp, m \in OptMate}

IsCpScore(s) == s.cp # None /\ s.mate = None
IsMateScore(s) == s.cp = None /\ s.mate # None

-----------------------------------------------------------------------------
(* cga.py: Move._cp_diff_calculation *)

\* a slip: the third branch takes the cp of the mate operand instead of bm_cp's
_cp_diff_calculation_mixed_cp(c, b) ==
    IF c.mate # None /\ b.mate # None
    THEN Score(Some(0), Some(Val(b.mate) + Val(c.mate)))
    ELSE IF c.cp # None /\ b.cp # None
    THEN Score(Some(Val(b.cp) + Val(c.cp)), None)
    ELSE IF c.mate # None /\ b.cp # None
    THEN Score(c.cp, c.mate)
    ELSE IF c.cp # None /\ b.mate # None
    THEN Score(c.cp, b.mate)
    ELSE Raise("UnboundLocalError")

\* a slip: the centipawn branch subtracts instead of adding
_cp_diff_calculation_minus(c, b) ==
    IF c.mate # None /\ b.mate # None
    THEN Score(Some(0), Some(Val(b.mate) + Val(c.mate)))
    ELSE IF c.cp # None /\ b.cp # None
    THEN Score(Some(Val(b.cp) - Val(c.cp)), None)
    ELSE IF c.mate # None /\ b.cp # None
    THEN Score(b.cp, c.mate)
    ELSE IF c.cp # None /\ b.mate # None
    THEN Score(c.cp, b.mate)
    ELSE Raise("UnboundLocalError")

_cp_diff_calculation(c, b) ==
    IF c.mate # None /\ b.mate # None
    THEN Score(Some(0), Some(Val(b.mate) + Val(c.mate)))
    ELSE IF c.cp # None /\ b.cp # None
    THEN Score(Some(Val(b.cp) + Val(c.cp)), None)
    ELSE IF c.mate # None /\ b.cp # None
    THEN Score(b.cp, c.mate)
    ELSE IF c.cp # None /\ b.mate # None
    THEN Score(c.cp, b.mate)
    ELSE Raise("UnboundLocalError")   \* diff_score is never bound

-----------------------------------------------------------------------------
(* The parts of the model that a specification does not exercise stay idle *)

IdleDiff ==
    /\ cp = None /\ bm_cp = None /\ diff_score = None /\ dpc = "idle"

IdleAnalyze ==
    /\ game = <<>> /\ engine_multipv = 0 /\ info_handlers = 0
    /\ uci_sent = <<>> /\ pending = 0
    /\ engine_log = <<>> /\ node = 0 /\ board = 0
    /\ stats_info = None /\ cp_score = None
    /\ white_moves = <<>> /\ black_moves = <<>> /\ analysed = <<>>
    /\ analyzed_game = None /\ apc = "idle"

IdlePlayer ==
    /\ name = None /\ all_games = <<>> /\ number_plys = 0
    /\ engine_stats = None /\ cp_avg = None /\ diff_avg = None
    /\ position_avg = None /\ top_3_avg = None /\ raised = None

IdleAp ==
    /\ ap_player = None /\ ap_games = <<>> /\ ap_all_games = 0
    /\ plys = <<>> /\ game_number = 0 /\ paired_moves = <<>>
    /\ position = 0 /\ ap_board = <<>> /\ previous_black_move = None
    /\ ap_analyzed_game = <<>> /\ all_analyzed_games = <<>>
    /\ ap_analysed = <<>>
    /\ ap_engine = None /\ csv_lines = <<>> /\ printed_averages = <<>>
    /\ ap_raised = None /\ ap_pc = "idle"

IdleMain ==
    /\ program = None /\ pgn_games = <<>> /\ player_arg = None
    /\ player_name = None /\ games_to_analyze = <<>> /\ listing = {}
    /\ messages = <<>> /\ engine_isfile = FALSE
    /\ engine = None /\ games_done = 0 /\ no_plys = TRUE
    /\ exit_status = None /\ main_raised = None /\ main_pc = "idle"

IdleChess ==
    /\ cc_path = None /\ cc_response = None /\ json_data = None
    /\ cc_printed = <<>> /\ cc_result = None /\ cc_pc = "idle"

IdleFen ==
    /\ to_move_response = None /\ current_response = None
    /\ games_to_move = None /\ current_games = None
    /\ fen_to_move = <<>> /\ fen_index = 0
    /\ fen_printed = <<>> /\ fen_result = None /\ fen_pc = "idle"

-----------------------------------------------------------------------------
(* Specification SpecDiff: one call of _cp_diff_calculation *)

InitDiff ==
    /\ cp \in AllScores
    /\ bm_cp \in AllScores
    /\ diff_score = None
    /\ dpc = "call"
    /\ IdleAnalyze /\ IdlePlayer /\ IdleAp /\ IdleMain /\ IdleChess
    /\ IdleFen

CpDiffCalculation ==
    /\ dpc = "call"
    /\ diff_score' = _cp_diff_calculation(cp, bm_cp)
    /\ dpc' = "return"
    /\ UNCHANGED <<cp, bm_cp>>
    /\ UNCHANGED notDiffVars

NextDiff == CpDiffCalculation

SpecDiff == InitDiff /\ [][NextDiff]_vars

-----------------------------------------------------------------------------
(* Claims about the score differential *)

\* C1: for two centipawn-valued scores (cp set, mate None) the differential
\* is a centipawn score: its cp is cp.cp + bm_cp.cp and its mate is None.
C1_CpSum ==
    (dpc = "return" /\ IsCpScore(cp) /\ IsCpScore(bm_cp)) =>
        /\ ~IsRaise(diff_score)
        /\ diff_score.cp = Some(Val(cp.cp) + Val(bm_cp.cp))
        /\ diff_score.mate = None

C1_Witness ==
    /\ dpc = "return"
    /\ IsCpScore(cp) /\ IsCpScore(bm_cp)
    /\ Val(cp.cp) # 0 /\ Val(bm_cp.cp) # 0
    /\ diff_score = Score(Some(Val(cp.cp) + Val(bm_cp.cp)), None)

\* C2: with exactly one mate operand and one centipawn operand the
\* differential is the mate component alone: its mate is the mate operand's
\* mate-in-N and the centipawn operand's value is not carried into it.
C2_MatePreferred ==
    (/\ dpc = "return"
     /\ \/ IsMateScore(cp) /\ IsCpScore(bm_cp)
        \/ IsCpScore(cp) /\ IsMateScore(bm_cp)) =>
        /\ ~IsRaise(diff_score)
        /\ diff_score.mate = (IF IsMateScore(cp) THEN cp.mate ELSE bm_cp.mate)
        /\ diff_score.cp = None

\* the case of C2: a mate operand and a centipawn operand, in either position
C2_Witness ==
    /\ dpc = "return"
    /\ IsMateScore(cp) /\ IsCpScore(bm_cp)
    /\ diff_score = Score(bm_cp.cp, cp.mate)

\* C3: the differential is symmetric: for scores that each carry a
\* centipawn value or a mate value, the call on (cp, bm_cp) returns the
\* same cp and mate as the call on (bm_cp, cp).
C3_Symmetric ==
    (/\ dpc = "return"
     /\ cp.cp # None \/ cp.mate # None
     /\ bm_cp.cp # None \/ bm_cp.mate # None) =>
        /\ ~IsRaise(diff_score)
        /\ LET swapped == _cp_diff_calculation(bm_cp, cp)
           IN  /\ diff_score.cp = swapped.cp
               /\ diff_score.mate = swapped.mate

C3_Witness ==
    /\ dpc = "return"
    /\ IsMateScore(cp) /\ IsCpScore(bm_cp)
    /\ Val(bm_cp.cp) # 0
    /\ diff_score = _cp_diff_calculation(bm_cp, cp)
    /\ diff_score.cp = bm_cp.cp

-----------------------------------------------------------------------------
(* cga.py: strings built by the chess library and cut up by analyze_game.  *)
(* A string is a sequence of tokens; a SAN is one token, since it holds    *)
(* neither a dot nor a blank.                                              *)

\* SAN notations that exist for the side to move; castling is written the
\* same for both sides
WhiteSan == {"e4", "Nf3", "O-O"}
BlackSan == {"e5", "Nf6", "O-O"}

\* board.turn, True for White, on a board with ply half-moves played
Turn(ply) == ply % 2 = 0

LegalSan(ply) == IF Turn(ply) THEN WhiteSan ELSE BlackSan

\* board.variation_san([move]): "1. e4" for White, "1...e5" for Black
variation_san(ply, san) ==
    IF Turn(ply)
    THEN <<"N", ".", " ", san>>
    ELSE <<"N", ".", ".", ".", san>>

\* s.split('.')[-1]: what follows the last dot
RECURSIVE SplitLast(_)
SplitLast(s) ==
    IF s = <<>> THEN <<>>
    ELSE IF s[Len(s)] = "." THEN <<>>
    ELSE Append(SplitLast(SubSeq(s, 1, Len(s) - 1)), s[Len(s)])

\* s.strip(): without leading and trailing blanks
RECURSIVE Strip(_)
Strip(s) ==
    IF s = <<>> THEN <<>>
    ELSE IF Head(s) = " " THEN Strip(Tail(s))
    ELSE IF s[Len(s)] = " " THEN Strip(SubSeq(s, 1, Len(s) - 1))
    ELSE s

\* node.san(): the SAN of the move that leads to node, as a string
NodeSan(g, n) == <<g[n]>>

-----------------------------------------------------------------------------
(* cga.py: Move, Engine.set_multi_pv and the engine's answers *)

\* POSITIONS = [1, 2, 3]
POSITIONS == {1, 2, 3}

\* Move.__init__(move, cp, bm, bm_score, bmp=0)
Move(move, c, bm, bm_score, bmp) ==
    [move |-> move,
     cp |-> c,
     bm |-> Strip(bm),
     bm_score |-> bm_score,
     cp_diff |-> _cp_diff_calculation(c, bm_score),
     best_move_position |-> bmp]

\* the value main passes to set_multi_pv
MainMultiPV == 3

\* a slip: the engine's maximum is set whatever was asked for
set_multi_pv_max(options, multi_pv) ==
    IF options.has /\ options.max > 1 THEN options.max ELSE options.current

\* Engine.set_multi_pv: the engine's MultiPV option after the call
set_multi_pv(options, multi_pv) ==
    IF options.has
    THEN IF multi_pv > 0 /\ options.max > 1 THEN multi_pv
         ELSE IF multi_pv = 0 /\ options.max > 1 THEN options.max
         ELSE options.current
    ELSE options.current

\* the MultiPV option of the engines considered: the UCI default of 1 and
\* a maximum of 1 (no multi-PV) or more
EngineOptions ==
    {[has |-> TRUE, current |-> 1, max |-> m] : m \in {1, 4}}

\* scores the engine reports for its first line
EngineScores == {Score(Some(30), None), Score(None, Some(2))}

\* the moves of LegalSan(ply) in the two orders of preference considered
Preferences(ply) ==
    IF Turn(ply)
    THEN {<<"e4", "Nf3", "O-O">>, <<"O-O", "Nf3", "e4">>}
    ELSE {<<"e5", "Nf6", "O-O">>, <<"O-O", "Nf6", "e5">>}

\* the first moves of the lines the engine may report with MultiPV set to
\* multipv: the best k moves of an order of preference, k from 1 to multipv
PvLines(ply, multipv) ==
    {SubSeq(o, 1, k) : o \in Preferences(ply),
                       k \in 1..(IF multipv < 3 THEN multipv ELSE 3)}

\* what stats.info may hold after go on the position with ply half-moves:
\* no line at all, or up to MultiPV lines with different first moves, line
\* k under key k, and the score of line 1
EngineAnswers(ply, multipv) ==
    {[pv |-> <<>>, score |-> None]} \cup
    {[pv |-> l, score |-> Some(s)] :
        l \in PvLines(ply, multipv), s \in EngineScores}

\* best_moves.keys()[best_moves.values().index(move)]: the first key, in
\* the order of the dict, whose value is move
RankOf(best_moves, move) ==
    LET hits == {k \in DOMAIN best_moves : best_moves[k] = move}
    IN  CHOOSE k \in hits : \A h \in hits : k <= h

\* a slip: the 0-based index of the list is recorded
best_move_position_zero_based(best_moves, move) ==
    IF \E k \in DOMAIN best_moves : best_moves[k] = move
    THEN RankOf(best_moves, move) - 1
    ELSE 0

\* lines 582-584: the rank of the played move, 0 when it is not suggested
best_move_position(best_moves, move) ==
    IF \E k \in DOMAIN best_moves : best_moves[k] = move
    THEN RankOf(best_moves, move)
    ELSE 0

-----------------------------------------------------------------------------
(* Specification SpecAnalyze: cga.analyze_game on one game *)

\* longest main line considered
MaxPlies == 3

\* the i-th half-move of the two games considered: one without castling,
\* one in which both sides castle
SampleSan(v, i) ==
    IF v = 1
    THEN (IF i % 4 = 1 THEN "e4" ELSE IF i % 4 = 2 THEN "e5"
          ELSE IF i % 4 = 3 THEN "Nf3" ELSE "Nf6")
    ELSE (IF i % 4 = 1 THEN "e4" ELSE IF i % 4 = 2 THEN "O-O"
          ELSE IF i % 4 = 3 THEN "O-O" ELSE "Nf6")

\* the main lines of at most n plies: what is left of node.variation(0)
\* from the root to the end of the game
MainLines(n) ==
    {[i \in 1..k |-> SampleSan(v, i)] : v \in 1..2, k \in 0..n}

InitAnalyze ==
    /\ IdleDiff /\ IdlePlayer /\ IdleAp /\ IdleMain /\ IdleChess
    /\ IdleFen
    /\ game \in MainLines(MaxPlies)
    /\ \E options \in EngineOptions :
          engine_multipv = set_multi_pv(options, MainMultiPV)
    /\ info_handlers = 0
    /\ uci_sent = <<>> /\ pending = 0
    /\ engine_log = <<>>
    /\ node = 0 /\ board = 0
    /\ stats_info = None /\ cp_score = None
    /\ white_moves = <<>> /\ black_moves = <<>> /\ analysed = <<>>
    /\ analyzed_game = None
    /\ apc = "call"

\* lines 543-554: what analyze_game sets up before its loop
AnalyzeBegin ==
    /\ apc = "call"
    /\ white_moves' = <<>> /\ black_moves' = <<>>
    /\ board' = 0
    /\ stats_info' = [pv |-> <<>>, score |-> None]
    /\ info_handlers' = info_handlers + 1
    /\ node' = 0
    /\ cp_score' = Score(Some(0), None)
    /\ uci_sent' = Append(uci_sent, "ucinewgame")
    /\ apc' = "loop"
    /\ UNCHANGED <<game, engine_multipv, pending, engine_log, analysed,
                   analyzed_game>>
    /\ UNCHANGED notAnalyzeVars

\* a slip: the test of board.turn is inverted
MoveListOf_swapped(turn) == IF turn THEN "White" ELSE "Black"

\* lines 593-596: the list a Move is appended to, board.turn being the
\* side to move after it
MoveListOf(turn) == IF ~turn THEN "White" ELSE "Black"

\* a slip: the loop stops at the node before the last
is_end_early(g, n) == n + 1 >= Len(g)

\* node.is_end() for the node n plies into the main line g
is_end(g, n) == n = Len(g)

\* lines 556-559: the loop goes on; the position is sent and the analysis
\* asked for
AnalyzeGo ==
    /\ apc = "loop"
    /\ ~is_end(game, node)
    /\ uci_sent' = uci_sent \o <<"position", "go">>
    /\ pending' = pending + 1
    /\ apc' = "go"
    /\ UNCHANGED <<game, engine_multipv, info_handlers, engine_log, node,
                   board, stats_info, cp_score, white_moves, black_moves,
                   analysed, analyzed_game>>
    /\ UNCHANGED notAnalyzeVars

\* lines 559-597: go returns, the engine having answered `answer`, and the
\* iteration goes on to its end
AnalyzePly(answer) ==
    /\ apc = "go"
    /\ pending' = pending - 1
    /\ apc' = "loop"
    /\ engine_log' = Append(engine_log, [position |-> board, pv |-> answer.pv,
                                         score |-> answer.score])
    /\ stats_info' = answer
    /\ node' = node + 1
    /\ LET best_moves ==
               [k \in DOMAIN answer.pv |->
                   Strip(SplitLast(variation_san(board, answer.pv[k])))]
           san == NodeSan(game, node + 1)
       IN  IF Len(answer.pv) = 0
           THEN UNCHANGED <<board, cp_score, white_moves, black_moves, analysed>>
           ELSE LET created ==
                        Move(san, cp_score,
                             SplitLast(variation_san(board, answer.pv[1])),
                             Val(answer.score), 0)
                    new_move ==
                        [created EXCEPT !.best_move_position =
                            best_move_position(best_moves, created.move)]
                IN  /\ cp_score' = new_move.bm_score
                    /\ board' = node + 1          \* board = node.board()
                    /\ IF MoveListOf(Turn(node + 1)) = "White"
                       THEN /\ white_moves' = Append(white_moves, new_move)
                            /\ UNCHANGED black_moves
                       ELSE /\ black_moves' = Append(black_moves, new_move)
                            /\ UNCHANGED white_moves
                    /\ analysed' = Append(analysed,
                                          [ply |-> node + 1, move |-> new_move])
    /\ UNCHANGED <<game, engine_multipv, info_handlers, uci_sent,
                   analyzed_game>>
    /\ UNCHANGED notAnalyzeVars

\* lines 599-601 with Game.store_analyzed_game
AnalyzeEnd ==
    /\ apc = "loop"
    /\ is_end(game, node)
    /\ analyzed_game' = Some([White |-> white_moves, Black |-> black_moves])
    /\ apc' = "return"
    /\ UNCHANGED <<game, engine_multipv, info_handlers, uci_sent, pending,
                   engine_log, node, board,
                   stats_info, cp_score, white_moves, black_moves, analysed>>
    /\ UNCHANGED notAnalyzeVars

NextAnalyze ==
    \/ AnalyzeBegin
    \/ AnalyzeGo
    \/ \E answer \in EngineAnswers(board, engine_multipv) : AnalyzePly(answer)
    \/ AnalyzeEnd

SpecAnalyze == InitAnalyze /\ [][NextAnalyze]_vars

\* the program runs on as long as it has a step to take: the engine answers
\* every go (its search is bounded by movetime) and the interpreter goes on
SpecAnalyzeFair == SpecAnalyze /\ WF_vars(NextAnalyze)

-----------------------------------------------------------------------------
(* Claims about the multi-PV rank *)

\* the rank of string san in the list pv of suggestions, 0 when absent
RankIn(pv, san) ==
    IF \E k \in DOMAIN pv : <<pv[k]>> = san
    THEN CHOOSE k \in DOMAIN pv : <<pv[k]>> = san
    ELSE 0

\* the suggestions the engine made for the position before ply p: its
\* answer in the iteration of ply p when it was asked about that position,
\* and none when it was asked about another position
SuggestionsBefore(p) ==
    IF engine_log[p].position = p - 1 THEN engine_log[p].pv ELSE <<>>

\* C4: for every analysed ply the recorded best_move_position is k (1, 2
\* or 3) exactly when the played move's notation is the engine's k-th
\* suggestion for the position before that move, it is 0 exactly when the
\* played move is not among these suggestions, and it is in {0, 1, 2, 3}.
C4_RankOfPlayedMove ==
    \A i \in DOMAIN analysed :
        LET r == analysed[i]
        IN  /\ r.move.best_move_position \in {0} \cup POSITIONS
            /\ r.move.best_move_position =
                   RankIn(SuggestionsBefore(r.ply), r.move.move)

\* a played move ranked third by the engine is recorded with rank 3
C4_Witness ==
    \E i \in DOMAIN analysed :
        /\ analysed[i].move.best_move_position = 3
        /\ engine_log[analysed[i].ply].position = analysed[i].ply - 1
        /\ <<engine_log[analysed[i].ply].pv[3]>> = analysed[i].move.move

\* the part of C4 that the code keeps: the recorded rank is the rank of the
\* played move's notation in the list the engine returned in that iteration
RankMatchesAnswer ==
    \A i \in DOMAIN analysed :
        LET r == analysed[i]
        IN  /\ r.move.best_move_position \in {0} \cup POSITIONS
            /\ r.move.best_move_position =
                   RankIn(engine_log[r.ply].pv, r.move.move)

-----------------------------------------------------------------------------
(* Claims about the loop of cga.analyze_game *)

\* C15: the board is in lockstep with the main line: the position sent to
\* the engine in the iteration of ply p is the one reached by the p - 1
\* moves before it, whatever the engine answered before, an answer with no
\* principal variation included.
C15_BoardLockstep ==
    \A p \in DOMAIN engine_log : engine_log[p].position = p - 1

\* a request made after an iteration in which the engine gave no line
C15_Witness ==
    /\ Len(engine_log) = 2
    /\ engine_log[1].pv = <<>>
    /\ engine_log[2].pv # <<>>

\* the engine's top score for the position before ply p: the score of its
\* first line in the iteration of ply p when it was asked about that
\* position and gave a line, None otherwise
TopScoreBefore(p) ==
    IF engine_log[p].position = p - 1 THEN engine_log[p].score ELSE None

\* C17: every recorded Move combines the scores of two consecutive
\* half-move positions: bm_score is the engine's top score for the position
\* before the move, cp the top score for the position before the ply that
\* precedes it (0 centipawns for the first ply of the game), and cp_diff
\* is the differential of the two.
C17_ConsecutiveScores ==
    \A i \in DOMAIN analysed :
        LET p == analysed[i].ply
            m == analysed[i].move
        IN  /\ TopScoreBefore(p) = Some(m.bm_score)
            /\ IF p = 1
               THEN m.cp = Score(Some(0), None)
               ELSE TopScoreBefore(p - 1) = Some(m.cp)
            /\ m.cp_diff = _cp_diff_calculation(m.cp, m.bm_score)

\* a move recorded for the second ply after an iteration in which the
\* engine gave no line
C17_Witness ==
    /\ Len(engine_log) = 2
    /\ engine_log[1].pv = <<>>
    /\ \E i \in DOMAIN analysed :
          /\ analysed[i].ply = 2
          /\ analysed[i].move.cp = Score(Some(0), None)
          /\ analysed[i].move.bm_score = Score(None, Some(2))

\* the part of C17 that the code keeps: a Move recorded right after
\* another carries that one's bm_score as its cp
CarriesPreviousScore ==
    \A i \in DOMAIN analysed :
        LET m == analysed[i].move
        IN  /\ m.bm_score = Val(engine_log[analysed[i].ply].score)
            /\ m.cp = IF i = 1 THEN Score(Some(0), None)
                      ELSE analysed[i - 1].move.bm_score

\* the plies of the given parity (1 odd, 0 even) for which the engine
\* returned a principal variation
EvaluatedPlies(parity) ==
    {p \in DOMAIN engine_log : engine_log[p].pv # <<>> /\ p % 2 = parity}

\* the i-th smallest element of the set S of numbers
Nth(S, i) == CHOOSE p \in S : Cardinality({q \in S : q <= p}) = i

\* the list moves holds one Move for each evaluated ply of the parity, in
\* the order of the plies
HoldsEvaluated(moves, parity) ==
    /\ Len(moves) = Cardinality(EvaluatedPlies(parity))
    /\ \A i \in DOMAIN moves :
          LET p == Nth(EvaluatedPlies(parity), i)
          IN  /\ moves[i].move = NodeSan(game, p)
              /\ moves[i].bm_score = Val(engine_log[p].score)
              /\ \E j \in DOMAIN analysed :
                    analysed[j] = [ply |-> p, move |-> moves[i]]

\* C18: white_moves holds exactly the evaluated odd-numbered plies and
\* black_moves the evaluated even-numbered plies, each in the order of the
\* game; the two lengths together are the number of plies for which the
\* engine returned a principal variation, and these lists are what the
\* Game returned stores.
C18_MovesBySide ==
    /\ HoldsEvaluated(white_moves, 1)
    /\ HoldsEvaluated(black_moves, 0)
    /\ Len(white_moves) + Len(black_moves) =
           Cardinality({p \in DOMAIN engine_log : engine_log[p].pv # <<>>})
    /\ apc = "return" =>
           analyzed_game = Some([White |-> white_moves, Black |-> black_moves])

\* a game of three plies returned with both moves of White and the move of
\* Black evaluated
C18_Witness ==
    /\ apc = "return"
    /\ Len(white_moves) = 2 /\ Len(black_moves) = 1
    /\ white_moves[1].move # white_moves[2].move

\* a game of three plies returned with the first move of White left out
C18_WitnessSkipped ==
    /\ apc = "return"
    /\ Len(game) = 3
    /\ engine_log[1].pv = <<>>
    /\ Len(white_moves) = 1 /\ Len(black_moves) = 1

\* ucinewgame followed by k times a position and a go
RECURSIVE CommandsOf(_)
CommandsOf(k) ==
    IF k = 0 THEN <<"ucinewgame">>
    ELSE CommandsOf(k - 1) \o <<"position", "go">>

\* the engine is driven one request at a time, once per ply
RequestResponse ==
    /\ pending \in {0, 1}
    /\ apc # "go" => pending = 0
    /\ apc # "call" => uci_sent = CommandsOf(Len(engine_log) + pending)
    /\ Len(engine_log) = node
    /\ node + pending <= Len(game)
    /\ apc = "return" => Len(engine_log) = Len(game)
    /\ Len(analysed) <= Len(engine_log)
    /\ \A i, j \in DOMAIN analysed :
          i # j => analysed[i].ply # analysed[j].ply

\* C19: analyze_game drives the engine strictly request-response and
\* terminates: each iteration sends one position followed by one go, which
\* is answered before the next is sent; the loop ends after as many
\* iterations as the main line has plies; at most one Move is made per ply.
C19_RequestResponseTerminates ==
    []RequestResponse /\ <>(apc = "return")

\* a game of three plies returned after three requests, one of them
\* answered without a line
C19_Witness ==
    /\ apc = "return"
    /\ Len(game) = 3
    /\ uci_sent = CommandsOf(3)
    /\ Len(analysed) = 2

-----------------------------------------------------------------------------
(* Python floats, as exact fractions num/den with den > 0 in lowest terms *)

Abs(x) == IF x < 0 THEN -x ELSE x

RECURSIVE GCD(_, _)
GCD(a, b) == IF b = 0 THEN a ELSE GCD(b, a % b)

Float(n, d) ==
    LET g == GCD(Abs(n), d)
    IN  [num |-> n \div g, den |-> d \div g]

Zero == Float(0, 1)

FAdd(a, b) == Float(a.num * b.den + b.num * a.den, a.den * b.den)

\* a / n for a count n; Python raises ZeroDivisionError when n is 0
FDiv(a, n) ==
    IF n = 0 THEN Raise("ZeroDivisionError") ELSE Float(a.num, a.den * n)

FTimes(a, n) == Float(a.num * n, a.den)

\* sum(values)
RECURSIVE FSum(_)
FSum(values) ==
    IF values = <<>> THEN Zero ELSE FAdd(Head(values), FSum(Tail(values)))

-----------------------------------------------------------------------------
(* cga.py: parse_score, Game *)

COLOURS == <<"White", "Black">>
NONAME == "Noname"

\* parse_score(score): the text of score.cp / 100.0, 'M' and the mate
\* value, or 'N/A'; the cp field is looked at first
parse_score(score) ==
    IF score.cp # None
    THEN [first |-> "digit", float |-> Float(Val(score.cp), 100)]
    ELSE IF score.mate # None
    THEN [first |-> "M", mate |-> Val(score.mate)]
    ELSE [first |-> "N"]

\* Game.__init__ followed by Game.store_analyzed_game(white, black)
store_analyzed_game(headers, white, black) ==
    [headers |-> headers,
     analyzed_game |-> [White |-> white, Black |-> black],
     number_plys |-> [White |-> Len(white), Black |-> Len(black)],
     pos_dict |-> [White |-> <<>>, Black |-> <<>>],
     avg_diff |-> [White |-> Zero, Black |-> Zero],
     avg_cp |-> [White |-> Zero, Black |-> Zero]]

\* lines 321-337: the three lists gathered for one side
CpDiffOf(moves) ==
    [i \in DOMAIN moves |-> Float(Val(moves[i].cp_diff.cp), 100)]

NotMate(m) == parse_score(m.bm_score).first # "M"

MoveCpOf(moves) ==
    LET scored == SelectSeq(moves, NotMate)
    IN  [i \in DOMAIN scored |-> parse_score(scored[i].bm_score).float]

PosDictOf(moves) ==
    LET ranks == {moves[i].best_move_position : i \in DOMAIN moves} \ {0}
    IN  [k \in ranks |->
            Cardinality({i \in DOMAIN moves : moves[i].best_move_position = k})]

\* a slip: the averages are divided out without the test of total_moves
AverageOfSide_unguarded(moves) ==
    LET total_moves == Len(CpDiffOf(moves))
    IN  [pos_dict |-> PosDictOf(moves),
         avg_diff |-> FDiv(FSum(CpDiffOf(moves)), total_moves),
         avg_cp |-> FDiv(FSum(MoveCpOf(moves)), total_moves)]

\* lines 320-346 for one side
AverageOfSide(moves) ==
    LET total_moves == Len(CpDiffOf(moves))
    IN  IF total_moves # 0
        THEN [pos_dict |-> PosDictOf(moves),
              avg_diff |-> FDiv(FSum(CpDiffOf(moves)), total_moves),
              avg_cp |-> FDiv(FSum(MoveCpOf(moves)), total_moves)]
        ELSE [pos_dict |-> PosDictOf(moves),
              avg_diff |-> Zero,
              avg_cp |-> Zero]

\* Game.average_analyzed_game: the game with its averages filled in
average_analyzed_game(g) ==
    LET w == AverageOfSide(g.analyzed_game.White)
        b == AverageOfSide(g.analyzed_game.Black)
    IN  [g EXCEPT !.pos_dict = [White |-> w.pos_dict, Black |-> b.pos_dict],
                  !.avg_diff = [White |-> w.avg_diff, Black |-> b.avg_diff],
                  !.avg_cp = [White |-> w.avg_cp, Black |-> b.avg_cp]]

AverageRaised(g) ==
    \E side \in {"White", "Black"} :
        IsRaise(g.avg_diff[side]) \/ IsRaise(g.avg_cp[side])

-----------------------------------------------------------------------------
(* cga.py: Player *)

\* Player.initialize_stats; cp_avg and diff_avg are 1-tuples (trailing comma)
InitialEngineStats == [cp_avg |-> <<>>, diff_avg |-> <<>>, position |-> <<>>]
InitialCpAvg == <<Zero>>
InitialPositionAvg == [pos \in POSITIONS |-> Zero]

\* Player.total_number_plys, starting from number_plys = 0
RECURSIVE total_number_plys(_, _)
total_number_plys(player, games) ==
    IF games = <<>> THEN 0
    ELSE LET g == games[Len(games)]
         IN  total_number_plys(player, SubSeq(games, 1, Len(games) - 1))
             + (IF player = g.headers.White THEN g.number_plys.White ELSE 0)
             + (IF player = g.headers.Black THEN g.number_plys.Black ELSE 0)

\* lines 157-162: the sides of game g that count for the player (every
\* game inserted is one the player played: find_player selected it)
SidesOf(player, g) ==
    IF player = NONAME THEN COLOURS
    ELSE IF player = g.headers.White THEN <<"White">>
    ELSE IF player = g.headers.Black THEN <<"Black">>
    ELSE <<>>

\* Player.get_stats over games whose averages are filled in
RECURSIVE get_stats(_, _)
get_stats(player, games) ==
    IF games = <<>> THEN InitialEngineStats
    ELSE LET g == games[Len(games)]
             before == get_stats(player, SubSeq(games, 1, Len(games) - 1))
             sides == SidesOf(player, g)
         IN  [cp_avg |-> before.cp_avg \o
                         [i \in DOMAIN sides |-> g.avg_cp[sides[i]]],
              diff_avg |-> before.diff_avg \o
                         [i \in DOMAIN sides |-> g.avg_diff[sides[i]]],
              position |-> before.position \o
                         [i \in DOMAIN sides |-> g.pos_dict[sides[i]]]]

\* average(values) of avg_stats
average(values) == FDiv(FSum(values), Len(values))

\* lines 176-184: how often each position was hit, over all games
RECURSIVE PosAux(_, _)
PosAux(positions, pos) ==
    IF positions = <<>> THEN 0
    ELSE PosAux(Tail(positions), pos)
         + (IF pos \in DOMAIN Head(positions) THEN Head(positions)[pos] ELSE 0)

\* float(count) / number_plys * 100
Percent(count, total_plys) ==
    IF total_plys = 0 THEN Raise("ZeroDivisionError")
    ELSE FTimes(FDiv(Float(count, 1), total_plys), 100)

-----------------------------------------------------------------------------
(* Specification SpecPlayer: Player(name) and a sequence of insert_game *)

\* most games inserted
MaxGames == 2

\* analysed moves the games are made of
SampleMoves ==
    [a |-> Move(<<"e4">>, Score(Some(0), None), <<"e4">>,
                Score(Some(30), None), 1),
     b |-> Move(<<"Nf6">>, Score(Some(30), None), <<"e5">>,
                Score(Some(-50), None), 0),
     c |-> Move(<<"O-O">>, Score(Some(-50), None), <<"Nf3">>,
                Score(None, Some(2)), 2),
     d |-> Move(<<"e5">>, Score(None, Some(2)), <<"O-O">>,
                Score(Some(70), None), 3)]

\* the move lists a side of a game may have
SideLists ==
    {<<>>,
     <<SampleMoves.b, SampleMoves.c>>,
     <<SampleMoves.d, SampleMoves.a, SampleMoves.a>>}

\* the games of the player found, as analyze_game returns them: the player
\* has White, Black, or both sides (the same name in both headers)
AnalysedGames ==
    {store_analyzed_game(h, w, b) :
        h \in {[White |-> "Ann", Black |-> "Bob"],
               [White |-> "Bob", Black |-> "Ann"],
               [White |-> "Ann", Black |-> "Ann"]},
        w \in SideLists, b \in SideLists}

\* Player.__init__
InitPlayer ==
    /\ IdleDiff /\ IdleAnalyze /\ IdleAp /\ IdleMain /\ IdleChess
    /\ IdleFen
    /\ name = "Ann"
    /\ all_games = <<>>
    /\ number_plys = 0
    /\ engine_stats = InitialEngineStats
    /\ cp_avg = InitialCpAvg
    /\ diff_avg = InitialCpAvg
    /\ position_avg = InitialPositionAvg
    /\ top_3_avg = Zero
    /\ raised = None

\* Player.insert_game(g)
insert_game(g) ==
    /\ raised = None
    /\ Len(all_games) < MaxGames
    /\ LET appended == Append(all_games, g)
           new_number_plys == total_number_plys(name, appended)
           averaged == [i \in DOMAIN appended |->
                           average_analyzed_game(appended[i])]
           stats == get_stats(name, averaged)
           cp_aux == average(stats.cp_avg)
           diff_aux == average(stats.diff_avg)
           pos_aux == [pos \in POSITIONS |-> PosAux(stats.position, pos)]
           sum_top_3_aux == pos_aux[1] + pos_aux[2] + pos_aux[3]
       IN  /\ number_plys' = new_number_plys
           /\ all_games' = averaged
           /\ IF \E i \in DOMAIN averaged : AverageRaised(averaged[i])
              THEN \* get_stats is left by the exception of the average
                   /\ engine_stats' = InitialEngineStats
                   /\ cp_avg' = InitialCpAvg
                   /\ diff_avg' = InitialCpAvg
                   /\ position_avg' = InitialPositionAvg
                   /\ top_3_avg' = Zero
                   /\ raised' = Some("ZeroDivisionError")
              ELSE /\ engine_stats' = stats
                   /\ IF IsRaise(cp_aux) \/ IsRaise(diff_aux)
                      THEN \* average() of an empty list
                           /\ cp_avg' = InitialCpAvg
                           /\ diff_avg' = InitialCpAvg
                           /\ position_avg' = InitialPositionAvg
                           /\ top_3_avg' = Zero
                           /\ raised' = Some("ZeroDivisionError")
                      ELSE /\ cp_avg' = cp_aux
                           /\ diff_avg' = diff_aux
                           /\ IF new_number_plys = 0
                              THEN \* line 191 divides by number_plys
                                   /\ position_avg' = InitialPositionAvg
                                   /\ top_3_avg' = Zero
                                   /\ raised' = Some("ZeroDivisionError")
                              ELSE /\ position_avg' =
                                        [pos \in POSITIONS |->
                                            Percent(pos_aux[pos], new_number_plys)]
                                   /\ top_3_avg' = Percent(sum_top_3_aux,
                                                         new_number_plys)
                                   /\ raised' = None
    /\ UNCHANGED name
    /\ UNCHANGED notPlayerVars

NextPlayer == \E g \in AnalysedGames : insert_game(g)

SpecPlayer == InitPlayer /\ [][NextPlayer]_vars

-----------------------------------------------------------------------------
(* Claims about the averages *)

RECURSIVE SumInt(_)
SumInt(s) == IF s = <<>> THEN 0 ELSE Head(s) + SumInt(Tail(s))

\* avg is the arithmetic mean of the centipawn values cps, taken as pawns
IsMeanOf(avg, cps) ==
    /\ ~IsRaise(avg)
    /\ avg.num * 100 * Len(cps) = SumInt(cps) * avg.den

BmIsCp(m) == m.bm_score.cp # None

\* the per-ply values of a side: the differentials, and the centipawn
\* scores of the plies that have one
DiffValues(moves) == [i \in DOMAIN moves |-> Val(moves[i].cp_diff.cp)]
CpValues(moves) ==
    LET scored == SelectSeq(moves, BmIsCp)
    IN  [i \in DOMAIN scored |-> Val(scored[i].bm_score.cp)]

\* C5: for each side with at least one evaluated ply, avg_cp and avg_diff
\* are each the sum of the per-ply values divided by the number of values
\* summed, also when some plies carry mate scores.
C5_ArithmeticMeans ==
    \A i \in DOMAIN all_games : \A side \in {"White", "Black"} :
        LET moves == all_games[i].analyzed_game[side]
        IN  Len(moves) >= 1 =>
              /\ IsMeanOf(all_games[i].avg_diff[side], DiffValues(moves))
              /\ CpValues(moves) # <<>> =>
                    IsMeanOf(all_games[i].avg_cp[side], CpValues(moves))

\* a side averaged with a centipawn ply and a mate ply
C5_Witness ==
    \E i \in DOMAIN all_games : \E side \in {"White", "Black"} :
        LET moves == all_games[i].analyzed_game[side]
        IN  /\ Len(moves) = 2
            /\ Len(CpValues(moves)) = 1
            /\ all_games[i].avg_cp[side] # Zero

\* C6: average_analyzed_game never divides by zero: for a side without
\* evaluated moves it returns average cp 0, average differential 0 and an
\* empty rank histogram, and the other side's averages are still computed.
C6_EmptySide ==
    \A i \in DOMAIN all_games : \A side \in {"White", "Black"} :
        LET g == all_games[i]
            other == IF side = "White" THEN "Black" ELSE "White"
        IN  g.analyzed_game[side] = <<>> =>
              /\ g.avg_cp[side] = Zero
              /\ g.avg_diff[side] = Zero
              /\ g.pos_dict[side] = <<>>
              /\ ~IsRaise(g.avg_cp[other])
              /\ g.analyzed_game[other] # <<>> =>
                    /\ IsMeanOf(g.avg_diff[other],
                                DiffValues(g.analyzed_game[other]))
                    /\ g.pos_dict[other] = PosDictOf(g.analyzed_game[other])

C6_Witness ==
    \E i \in DOMAIN all_games :
        /\ all_games[i].analyzed_game.Black = <<>>
        /\ Len(all_games[i].analyzed_game.White) = 2
        /\ all_games[i].avg_cp.Black = Zero
        /\ all_games[i].avg_diff.White # Zero

\* C7: insert_game completes without a division error when the inserted
\* game gives the player's side no evaluated move, so that the player's
\* total ply count is 0.
C7_InsertGuarded ==
    (all_games # <<>> /\ number_plys = 0) => raised = None

\* the case of C7: a game inserted whose side of the player has no move
C7_Witness ==
    /\ Len(all_games) = 1
    /\ all_games[1].headers.Black = name
    /\ all_games[1].analyzed_game.Black = <<>>
    /\ all_games[1].analyzed_game.White # <<>>
    /\ number_plys = 0

\* the moves of game g played by the player: those of every side whose
\* header is the player's name
MovesOfPlayer(g) ==
    (IF g.headers.White = name THEN g.analyzed_game.White ELSE <<>>) \o
    (IF g.headers.Black = name THEN g.analyzed_game.Black ELSE <<>>)

\* how many moves of the player are ranked k, over the games inserted
RankedMoves(k) ==
    SumInt([i \in DOMAIN all_games |->
               Cardinality({j \in DOMAIN MovesOfPlayer(all_games[i]) :
                   MovesOfPlayer(all_games[i])[j].best_move_position = k})])

\* C21: after any sequence of insert_game calls number_plys is the sum,
\* over every inserted game, of the evaluated plies of the player in it;
\* each position_avg[k] is 100 times the number of the player's moves
\* ranked k divided by number_plys; top_3_avg is the sum of position_avg
\* over 1, 2 and 3 and is at most 100.
C21_PlayerTotals ==
    /\ number_plys =
           SumInt([i \in DOMAIN all_games |-> Len(MovesOfPlayer(all_games[i]))])
    /\ (raised = None /\ all_games # <<>>) =>
           /\ \A k \in POSITIONS :
                  position_avg[k] = Float(100 * RankedMoves(k), number_plys)
           /\ top_3_avg = FAdd(FAdd(position_avg[1], position_avg[2]),
                               position_avg[3])
           /\ top_3_avg.num <= 100 * top_3_avg.den

\* a game in which the player has both sides, inserted after another
C21_Witness ==
    /\ raised = None
    /\ Len(all_games) = 2
    /\ all_games[1].headers.White # all_games[1].headers.Black
    /\ all_games[2].headers = [White |-> name, Black |-> name]
    /\ all_games[2].analyzed_game.Black # <<>>

\* the part of C21 that the code keeps: with the player on one side of
\* every game the totals are as claimed
TotalsOfOneSidedGames ==
    (\A i \in DOMAIN all_games :
        all_games[i].headers.White # all_games[i].headers.Black)
    => C21_PlayerTotals

\* two games with the player on one side, his moves ranked 1, 2 and 3
TotalsOfOneSidedGames_Witness ==
    /\ raised = None
    /\ Len(all_games) = 2
    /\ \A i \in DOMAIN all_games :
          all_games[i].headers.White # all_games[i].headers.Black
    /\ \A k \in POSITIONS : position_avg[k] # Zero

-----------------------------------------------------------------------------
(* ap.py: the rows of the CSV report.  A row is a string, modelled as a    *)
(* sequence of tokens: the separator ';' and the texts joined by it.       *)

Sep == [t |-> "sep"]
Text(x) == [t |-> "text", v |-> x]          \* a SAN or a column title
IntText(n) == [t |-> "int", v |-> n]        \* str() of an int
FloatText(x) == [t |-> "float", v |-> x]    \* str() of a float

\* s.split(';'): the fields between the separators
RECURSIVE Split(_)
Split(s) ==
    IF s = <<>> THEN << <<>> >>
    ELSE LET front == Split(SubSeq(s, 1, Len(s) - 1))
             last == s[Len(s)]
         IN  IF last.t = "sep"
             THEN Append(front, <<>>)
             ELSE [front EXCEPT ![Len(front)] = Append(@, last)]

\* l[2::2]: the elements at the 0-based indices 2, 4, 6, ...
SliceFrom2Step2(l) ==
    [i \in 1..(IF Len(l) > 2 THEN (Len(l) - 1) \div 2 ELSE 0) |-> l[2 * i + 1]]

\* float(field): the number a field reads as
ParseFloat(field) ==
    IF Len(field) = 1 /\ field[1].t \in {"float", "int"}
    THEN IF field[1].t = "float" THEN field[1].v ELSE Float(field[1].v, 1)
    ELSE Raise("ValueError")

FSub(a, b) == FAdd(a, Float(-b.num, b.den))

\* '{:+.2f}'.format(x): x in hundredths, rounded to the nearest, a tie to
\* the even one
Format2f(x) ==
    LET q == (100 * x.num) \div x.den
        r == (100 * x.num) % x.den
    IN  [t |-> "fixed2",
         v |-> IF 2 * r < x.den THEN q
               ELSE IF 2 * r > x.den THEN q + 1
               ELSE IF q % 2 = 0 THEN q ELSE q + 1]

-----------------------------------------------------------------------------
(* ap.py: Move.fill, game_to_paired_list, analyze_game *)

\* Move.fill: the cp of a move, from stats.info['score'][1]
FillCp(score) ==
    IF score.mate = None \/ score.mate = Some(0)
    THEN Float(Val(score.cp), 100)
    ELSE Float(100, 1)

\* game_to_paired_list(game): [(w1, b1), (w2, b2), ...], '' for a missing
\* last black move
RECURSIVE game_to_paired_list(_)
game_to_paired_list(line) ==
    IF line = <<>> THEN <<>>
    ELSE IF Len(line) = 1 THEN << <<line[1], "">> >>
    ELSE << <<line[1], line[2]>> >> \o
         game_to_paired_list(SubSeq(line, 3, Len(line)))

\* a slip: the test of line 256 is missing
MoveMade_always(move) == TRUE

\* line 256: move[column] != ''
MoveMade(move) == move # ""

\* lines 263-269: what one depth adds to the row
RowGroup(ply, answer) ==
    <<Sep, IntText(ply),
      Sep, FloatText(FillCp(answer.played_score)),
      Sep, Text(answer.best_move),
      Sep, FloatText(FillCp(answer.best_score))>>

RECURSIVE RowGroups(_, _)
RowGroups(depths, answers) ==
    IF depths = <<>> THEN <<>>
    ELSE RowGroup(Head(depths), Head(answers)) \o
         RowGroups(Tail(depths), Tail(answers))

\* what the engine may answer to the two requests of analyze_move on a
\* board with ply half-moves: its best move with its score, and the score
\* of the move played
ApAnswers(ply) ==
    <<[best_move |-> IF Turn(ply) THEN "e4" ELSE "e5",
       best_score |-> Score(Some(30), None),
       played_score |-> Score(Some(-50), None)],
      [best_move |-> "O-O",
       best_score |-> Score(None, Some(2)),
       played_score |-> Score(Some(35), None)]>>

\* one answer per depth: the answers considered differ from one depth to
\* the next, starting from either
AnswerLists(n, ply) ==
    {[d \in 1..n |-> ApAnswers(ply)[((d + first) % 2) + 1]] : first \in 0..1}

\* a slip: the previous move of Black is not pushed
BoardBefore_no_push(white, pos, on_board, previous, move) ==
    IF white THEN on_board ELSE Append(on_board, move[1])

\* lines 242-252: the moves on board when move[column] is looked at
BoardBefore(white, pos, on_board, previous, move) ==
    IF white
    THEN (IF pos > 0 THEN Append(on_board, previous) ELSE on_board)
    ELSE Append(on_board, move[1])

-----------------------------------------------------------------------------
(* ap.py: output_result *)

\* a slip: the depth's pair is looked up at p and p + 1, not 2p and 2p + 1
RowDif_unscaled(row, p) ==
    LET aux == SliceFrom2Step2(Split(row))
    IN  IF p + 2 > Len(aux) THEN Raise("IndexError")
        ELSE LET best == ParseFloat(aux[p + 2])
                 played == ParseFloat(aux[p + 1])
             IN  IF IsRaise(best) \/ IsRaise(played)
                 THEN Raise("ValueError")
                 ELSE FSub(best, played)

\* lines 306-309: float(aux[2 * p + 1]) - float(aux[2 * p]) for the p-th
\* depth, p counted from 0
RowDif(row, p) ==
    LET aux == SliceFrom2Step2(Split(row))
    IN  IF 2 * p + 2 > Len(aux) THEN Raise("IndexError")
        ELSE LET best == ParseFloat(aux[2 * p + 2])
                 played == ParseFloat(aux[2 * p + 1])
             IN  IF IsRaise(best) \/ IsRaise(played)
                 THEN Raise("ValueError")
                 ELSE FSub(best, played)

\* lines 290-293 and 296: the header without its last ';'
RECURSIVE HeaderGroups(_)
HeaderGroups(depths) ==
    IF depths = <<>> THEN <<>>
    ELSE <<Text("ply"), Sep, Text("cp move"), Sep, Text("best move"), Sep,
           Text("cp best move"), Sep>> \o HeaderGroups(Tail(depths))

CsvHeader(depths) ==
    LET csv_header == <<Text("Move"), Sep>> \o HeaderGroups(depths)
    IN  SubSeq(csv_header, 1, Len(csv_header) - 1)

\* the rows of all the games, in the order of lines 300-301
RECURSIVE Flatten(_)
Flatten(games) ==
    IF games = <<>> THEN <<>> ELSE Head(games) \o Flatten(Tail(games))

\* all_difs[p] after the loop of lines 300-309
AllDifs(rows, p) == [i \in DOMAIN rows |-> RowDif(rows[i], p)]

-----------------------------------------------------------------------------
(* Specification SpecAp: ap.main after find_player *)

\* longest main line of a game of the player
MaxApPlies == 3
\* most games of the player
MaxApGames == 2

\* the i-th half-move of the games considered
ApSan(i) ==
    LET k == ((i - 1) \div 2) % 3
    IN  IF i % 2 = 1
        THEN (IF k = 0 THEN "e4" ELSE IF k = 1 THEN "Nf3" ELSE "O-O")
        ELSE (IF k = 0 THEN "e5" ELSE IF k = 1 THEN "Nf6" ELSE "O-O")

\* the games find_player returns: each has the player on one side
ApGames ==
    {[headers |-> h, line |-> [i \in 1..n |-> ApSan(i)]] :
        h \in {[White |-> "Ann", Black |-> "Bob"],
               [White |-> "Bob", Black |-> "Ann"]},
        n \in 0..MaxApPlies}

RECURSIVE GameLists(_)
GameLists(n) ==
    IF n = 0 THEN {<<>>}
    ELSE LET shorter == GameLists(n - 1)
         IN  shorter \cup
             {Append(l, g) : l \in {m \in shorter : Len(m) = n - 1},
                             g \in ApGames}

\* main, lines 320-334: the engine is started, no game analysed yet
InitAp ==
    /\ IdleDiff /\ IdleAnalyze /\ IdlePlayer /\ IdleMain /\ IdleChess
    /\ IdleFen
    /\ ap_player = "Ann"
    /\ ap_games \in GameLists(MaxApGames)
    \* the file holds these games and maybe others; of their number only
    \* whether it is 0 is used (line 343)
    /\ ap_all_games \in {Len(ap_games)} \cup
                        (IF ap_games = <<>> THEN {1} ELSE {})
    /\ plys \in {<<2>>, <<2, 5>>}
    /\ game_number = 1
    /\ paired_moves = <<>> /\ position = 0 /\ ap_board = <<>>
    /\ previous_black_move = None
    /\ ap_analyzed_game = <<>> /\ all_analyzed_games = <<>>
    /\ ap_analysed = <<>>
    /\ ap_engine = [state |-> "running", position |-> None, go |-> 0,
                    info_handlers |-> 0]
    /\ csv_lines = <<>> /\ printed_averages = <<>>
    /\ ap_raised = None
    /\ ap_pc = "games"

\* analyze_game, lines 233-239
ApAnalyzeBegin ==
    /\ ap_pc = "games"
    /\ game_number <= Len(ap_games)
    /\ ap_analyzed_game' = <<>>
    /\ paired_moves' = game_to_paired_list(ap_games[game_number].line)
    /\ ap_board' = <<>>
    /\ ap_engine' = [ap_engine EXCEPT !.position = Some(<<>>),
                                      !.info_handlers = @ + 1]
    /\ position' = 0
    /\ ap_pc' = "pairs"
    /\ UNCHANGED <<ap_analysed, ap_player, ap_games, ap_all_games, plys, game_number,
                   previous_black_move, all_analyzed_games, csv_lines,
                   printed_averages, ap_raised>>
    /\ UNCHANGED notApVars

\* analyze_game, lines 241-275: one pair of moves; answers holds the
\* engine's answers for each depth
ApAnalyzePair ==
    /\ ap_pc = "pairs"
    /\ position < Len(paired_moves)
    /\ LET headers == ap_games[game_number].headers
           move == paired_moves[position + 1]
           white == headers.White = ap_player
           column == IF white THEN 1 ELSE 2
           before == BoardBefore(white, position, ap_board,
                                 previous_black_move, move)
           \* machine.engine.position(board) follows each push
           sent == IF before = ap_board THEN Val(ap_engine.position)
                   ELSE before
       IN  /\ headers.White = ap_player \/ headers.Black = ap_player
           /\ IF MoveMade(move[column])
              THEN /\ \E answers \in AnswerLists(Len(plys), Len(before)) :
                        ap_analyzed_game' =
                            Append(ap_analyzed_game,
                                   <<Text(move[column])>> \o
                                   RowGroups(plys, answers))
                   /\ ap_analysed' =
                        Append(ap_analysed,
                               [game |-> game_number,
                                move |-> move[column],
                                board |-> before,
                                engine_position |-> sent,
                                pushed |-> Append(before, move[column])])
                   /\ ap_board' = Append(before, move[column])
                   /\ ap_engine' =
                        [ap_engine EXCEPT
                            !.position = Some(Append(before, move[column])),
                            !.go = @ + 2 * Len(plys)]
                   /\ previous_black_move' = move[2]
              ELSE /\ ap_board' = before
                   /\ ap_engine' = [ap_engine EXCEPT !.position = Some(before)]
                   /\ UNCHANGED <<ap_analyzed_game, ap_analysed,
                                  previous_black_move>>
    /\ position' = position + 1
    /\ UNCHANGED <<ap_player, ap_games, ap_all_games, plys, game_number,
                   paired_moves, all_analyzed_games, csv_lines,
                   printed_averages, ap_raised, ap_pc>>
    /\ UNCHANGED notApVars

\* analyze_game, line 276, and main, lines 338-339
ApAnalyzeEnd ==
    /\ ap_pc = "pairs"
    /\ position = Len(paired_moves)
    /\ all_analyzed_games' = Append(all_analyzed_games, ap_analyzed_game)
    /\ game_number' = game_number + 1
    /\ ap_pc' = "games"
    /\ UNCHANGED <<ap_analysed, ap_player, ap_games, ap_all_games, plys, paired_moves,
                   position, ap_board, previous_black_move, ap_analyzed_game,
                   ap_engine, csv_lines, printed_averages, ap_raised>>
    /\ UNCHANGED notApVars

\* main, lines 340-343: the engine is quit and the time per game printed
ApQuit ==
    /\ ap_pc = "games"
    /\ game_number > Len(ap_games)
    /\ ap_engine' = [ap_engine EXCEPT !.state = "quit"]
    /\ IF ap_all_games = 0
       THEN ap_raised' = Some("ZeroDivisionError") /\ ap_pc' = "raised"
       ELSE ap_raised' = None /\ ap_pc' = "output"
    /\ UNCHANGED <<ap_analysed, ap_player, ap_games, ap_all_games, plys, game_number,
                   paired_moves, position, ap_board, previous_black_move,
                   ap_analyzed_game, all_analyzed_games, csv_lines,
                   printed_averages>>
    /\ UNCHANGED notApVars

\* output_result(output_file, all_analyzed_games, plys); the lines go to
\* the file or to the standard output, the averages to the standard output
output_result ==
    /\ ap_pc = "output"
    /\ LET rows == Flatten(all_analyzed_games)
           all_difs == [p \in 1..Len(plys) |-> AllDifs(rows, p - 1)]
           bad == \E p \in DOMAIN all_difs : \E i \in DOMAIN rows :
                      IsRaise(all_difs[p][i])
       IN  IF bad
           THEN \* a row that does not read as the header says
                /\ csv_lines' = <<CsvHeader(plys)>>
                /\ printed_averages' = <<>>
                /\ ap_raised' = Some("ValueError")
                /\ ap_pc' = "raised"
           ELSE /\ csv_lines' = <<CsvHeader(plys)>> \o rows
                /\ IF rows = <<>>
                   THEN \* line 313 divides by len(all_difs[d])
                        /\ printed_averages' = <<>>
                        /\ ap_raised' = Some("ZeroDivisionError")
                        /\ ap_pc' = "raised"
                   ELSE /\ printed_averages' =
                             [d \in DOMAIN all_difs |->
                                 [plys |-> plys[d],
                                  average |->
                                      Format2f(FDiv(FSum(all_difs[d]),
                                                    Len(all_difs[d])))]]
                        /\ ap_raised' = None
                        /\ ap_pc' = "done"
    /\ UNCHANGED <<ap_analysed, ap_player, ap_games, ap_all_games, plys, game_number,
                   paired_moves, position, ap_board, previous_black_move,
                   ap_analyzed_game, all_analyzed_games, ap_engine>>
    /\ UNCHANGED notApVars

NextAp ==
    \/ ApAnalyzeBegin
    \/ ApAnalyzePair
    \/ ApAnalyzeEnd
    \/ ApQuit
    \/ output_result

SpecAp == InitAp /\ [][NextAp]_vars

-----------------------------------------------------------------------------
(* Claims about the CSV report *)

\* the half-moves of the player in a game: the odd plies for White, the
\* even plies for Black
PlayerPlies(g) ==
    IF g.headers.White = ap_player
    THEN (Len(g.line) + 1) \div 2
    ELSE Len(g.line) \div 2

RECURSIVE TotalPlayerPlies(_)
TotalPlayerPlies(games) ==
    IF games = <<>> THEN 0
    ELSE PlayerPlies(Head(games)) + TotalPlayerPlies(Tail(games))

\* the data rows emitted: the lines after the header
DataRows == SubSeq(csv_lines, 2, Len(csv_lines))

OutputReturned == ap_pc = "done" \/ (ap_pc = "raised" /\ csv_lines # <<>>)

\* C8: the number of data rows emitted by output_result equals the number
\* of half-moves of the player evaluated by analyze_game over all analysed
\* games: one row per non-empty move of the player, none for an empty
\* final black move.
C8_RowCount ==
    OutputReturned =>
        /\ Len(DataRows) = TotalPlayerPlies(ap_games)
        /\ Len(DataRows) * 2 * Len(plys) = ap_engine.go

\* a report for a player with Black whose game ends on a move of White,
\* and with White in another game
C8_Witness ==
    /\ ap_pc = "done"
    /\ \E i \in DOMAIN ap_games :
          /\ ap_games[i].headers.Black = ap_player
          /\ Len(ap_games[i].line) = 3
    /\ \E i \in DOMAIN ap_games : ap_games[i].headers.White = ap_player
    /\ Len(DataRows) >= 2

\* the field of a row at 1-based index k, read as a number
Field(row, k) == Split(row)[k][1].v

\* the mean over rows of best cp minus played cp of the d-th depth, both
\* read in the d-th group of four columns
RECURSIVE SumOfDifs(_, _)
SumOfDifs(rows, d) ==
    IF rows = <<>> THEN Zero
    ELSE FAdd(FSub(Field(Head(rows), 4 * d + 1), Field(Head(rows), 4 * d - 1)),
              SumOfDifs(Tail(rows), d))

\* C9: for every depth asked for, the printed average is the arithmetic
\* mean (printed with two decimals) over all emitted rows of the best
\* move's cp minus the played move's cp, both from that depth's own group
\* of columns; every row has one move field and four fields per depth, as
\* the header has.
C9_AveragePerDepth ==
    ap_pc = "done" =>
        /\ \A i \in DOMAIN DataRows :
              /\ Len(Split(DataRows[i])) = 1 + 4 * Len(plys)
              /\ Len(Split(DataRows[i])) = Len(Split(csv_lines[1]))
              /\ \A d \in DOMAIN plys :
                    Split(DataRows[i])[4 * d - 2] = <<IntText(plys[d])>>
        /\ Len(printed_averages) = Len(plys)
        /\ \A d \in DOMAIN plys :
              /\ printed_averages[d].plys = plys[d]
              /\ printed_averages[d].average =
                     Format2f(FDiv(SumOfDifs(DataRows, d), Len(DataRows)))

\* two depths, several rows, and averages that differ between the depths
C9_Witness ==
    /\ ap_pc = "done"
    /\ Len(plys) = 2
    /\ Len(DataRows) >= 2
    /\ printed_averages[1].average # printed_averages[2].average

\* C16: in ap.analyze_game the board is in lockstep with the game: when
\* the player's k-th move is analysed, the board and the engine's position
\* hold exactly the plies played before it, 2(k-1) for White and 2k-1 for
\* Black, and after the analysis the played move itself is pushed.
C16_ApBoardLockstep ==
    \A i \in DOMAIN ap_analysed :
        LET e == ap_analysed[i]
            g == ap_games[e.game]
            k == Cardinality({j \in 1..i : ap_analysed[j].game = e.game})
            before == IF g.headers.White = ap_player
                      THEN 2 * (k - 1) ELSE 2 * k - 1
        IN  /\ before < Len(g.line)
            /\ e.board = SubSeq(g.line, 1, before)
            /\ e.engine_position = e.board
            /\ e.move = g.line[before + 1]
            /\ e.pushed = SubSeq(g.line, 1, before + 1)

\* the second move of White analysed in one game, a move of Black in
\* another
C16_Witness ==
    /\ \E i \in DOMAIN ap_analysed :
          /\ ap_games[ap_analysed[i].game].headers.White = ap_player
          /\ Len(ap_analysed[i].board) = 2
    /\ \E i \in DOMAIN ap_analysed :
          /\ ap_games[ap_analysed[i].game].headers.Black = ap_player
          /\ Len(ap_analysed[i].board) = 1

\* C20: analysing a game leaves nothing behind in the engine: whenever
\* analyze_game has returned, the engine's registered info handlers are
\* those it had before the call, none in a run of main, however many games
\* were analysed with it.
C20_InfoHandlersRestored ==
    ap_pc # "pairs" => ap_engine.info_handlers = 0

\* two games analysed one after the other with the same engine
C20_Witness ==
    /\ ap_pc = "games"
    /\ game_number = 3
    /\ ap_engine.state = "running"
    /\ ap_engine.info_handlers = 2

-----------------------------------------------------------------------------
(* cga.py and ap.py: find_player.  A name is a sequence of letters; the    *)
(* pattern searched for is taken to hold letters only, so that re.search   *)
(* looks for it as a substring.                                            *)

\* the lower-case letter of a letter, as re.IGNORECASE compares them
Lower(c) ==
    IF c = "A" THEN "a" ELSE IF c = "B" THEN "b" ELSE IF c = "C" THEN "c"
    ELSE c

LowerStr(str) == [i \in DOMAIN str |-> Lower(str[i])]

\* a slip: flags=re.IGNORECASE is missing
re_search_case_sensitive(pattern, string) ==
    \E i \in 0..(Len(string) - Len(pattern)) :
        SubSeq(string, i + 1, i + Len(pattern)) = pattern

\* re.search(pattern, string, flags=re.IGNORECASE) finds a match
re_search(pattern, string) ==
    \E i \in 0..(Len(string) - Len(pattern)) :
        SubSeq(LowerStr(string), i + 1, i + Len(pattern)) = LowerStr(pattern)

\* lines 474-482 of cga.py, 113-121 of ap.py: all_found, as the set
\* made of it, and all_games
RECURSIVE AllFound(_, _)
AllFound(games, pattern) ==
    IF games = <<>> THEN {}
    ELSE (IF re_search(pattern, Head(games).White)
          THEN {Head(games).White} ELSE {})
         \cup (IF re_search(pattern, Head(games).Black)
               THEN {Head(games).Black} ELSE {})
         \cup AllFound(Tail(games), pattern)

RECURSIVE AllGamesFound(_, _)
AllGamesFound(games, pattern) ==
    IF games = <<>> THEN <<>>
    ELSE (IF re_search(pattern, Head(games).White)
          THEN <<Head(games)>> ELSE <<>>)
         \o (IF re_search(pattern, Head(games).Black)
             THEN <<Head(games)>> ELSE <<>>)
         \o AllGamesFound(Tail(games), pattern)

\* sys.exit(3) in cga.py, sys.exit() in ap.py
SeveralPlayersStatus(prog) == IF prog = "cga" THEN 3 ELSE 0

-----------------------------------------------------------------------------
(* Specification SpecMain: a run of main.  The analysis of one game and    *)
(* the report are the subject of SpecAnalyze, SpecPlayer and SpecAp; here  *)
(* a game analysed counts its engine requests and whether the player got   *)
(* an evaluated move out of it.                                            *)

\* most games in the PGN file
MaxPgnGames == 2

\* names of players in the file
PlayerNames == {<<"A", "b">>, <<"a", "b">>, <<"b", "C">>}

\* texts given as args.player
PlayerArgs == {<<"a", "B">>, <<"c">>, <<"d">>}

PgnHeaders ==
    {[White |-> w, Black |-> b] : w \in PlayerNames, b \in PlayerNames}
    \ {[White |-> n, Black |-> n] : n \in PlayerNames}

RECURSIVE PgnFiles(_)
PgnFiles(n) ==
    IF n = 0 THEN {<<>>}
    ELSE LET shorter == PgnFiles(n - 1)
         IN  shorter \cup
             {Append(l, g) : l \in {m \in shorter : Len(m) = n - 1},
                             g \in PgnHeaders}

\* main up to and with read_all_pgn
InitMain ==
    /\ IdleDiff /\ IdleAnalyze /\ IdlePlayer /\ IdleAp /\ IdleChess
    /\ IdleFen
    /\ program \in {"cga", "ap"}
    /\ pgn_games \in PgnFiles(MaxPgnGames)
    /\ player_arg \in PlayerArgs
    /\ player_name = None
    /\ games_to_analyze = <<>>
    /\ listing = {}
    /\ messages = <<>>
    /\ engine_isfile \in BOOLEAN
    /\ engine = [opened |-> 0, quit |-> 0, go |-> 0]
    /\ games_done = 0
    /\ no_plys = TRUE
    /\ exit_status = None
    /\ main_raised = None
    /\ main_pc = "find_player"

\* find_player(all_games, args.player)
find_player ==
    /\ main_pc = "find_player"
    /\ LET unique_players == AllFound(pgn_games, player_arg)
       IN  IF Cardinality(unique_players) > 1
           THEN /\ listing' = unique_players
                /\ messages' = Append(messages, "Several players found:")
                /\ exit_status' = Some(SeveralPlayersStatus(program))
                /\ main_pc' = "exited"
                /\ UNCHANGED <<player_name, games_to_analyze>>
           ELSE /\ player_name' =
                     IF Cardinality(unique_players) = 1
                     THEN Some(CHOOSE n \in unique_players : TRUE)
                     ELSE Some(<<>>)           \* the empty list
                /\ messages' =
                     Append(messages,
                            IF Cardinality(unique_players) = 1
                            THEN "Player found:" ELSE "No player found.")
                /\ games_to_analyze' = AllGamesFound(pgn_games, player_arg)
                /\ main_pc' = "create_engine"
                /\ UNCHANGED <<listing, exit_status>>
    /\ UNCHANGED <<program, pgn_games, player_arg, engine_isfile, engine,
                   games_done, no_plys, main_raised>>
    /\ UNCHANGED notMainVars

\* a slip: the subprocess is spawned before the path is tested
create_engine_popen_first ==
    /\ main_pc = "create_engine"
    /\ engine' = [engine EXCEPT !.opened = @ + 1]
    /\ IF engine_isfile
       THEN /\ main_pc' = "analysis"
            /\ UNCHANGED <<exit_status, messages>>
       ELSE /\ messages' = Append(messages, "Engine does not exists.")
            /\ exit_status' = Some(1)
            /\ main_pc' = "exited"
    /\ UNCHANGED <<program, pgn_games, player_arg, player_name,
                   games_to_analyze, listing, engine_isfile, games_done,
                   no_plys, main_raised>>
    /\ UNCHANGED notMainVars

\* Engine(args.engine), and chess_engine.set_multi_pv(3) in cga.py
create_engine ==
    /\ main_pc = "create_engine"
    /\ IF engine_isfile
       THEN /\ engine' = [engine EXCEPT !.opened = @ + 1]
            /\ main_pc' = "analysis"
            /\ UNCHANGED <<exit_status, messages>>
       ELSE /\ messages' = Append(messages, "Engine does not exists.")
            /\ exit_status' = Some(1)
            /\ main_pc' = "exited"
            /\ UNCHANGED engine
    /\ UNCHANGED <<program, pgn_games, player_arg, player_name,
                   games_to_analyze, listing, engine_isfile, games_done,
                   no_plys, main_raised>>
    /\ UNCHANGED notMainVars

\* one turn of the analysis loop: analyze_game on the next game, with
\* requests go requests to the engine, some telling whether the player got
\* an evaluated move; cga.py then runs player.insert_game
analyse_next_game(requests, some) ==
    /\ main_pc = "analysis"
    /\ games_done < Len(games_to_analyze)
    /\ engine' = [engine EXCEPT !.go = @ + requests]
    /\ games_done' = games_done + 1
    /\ no_plys' = (no_plys /\ ~some)
    /\ IF program = "cga" /\ no_plys /\ ~some
       THEN \* avg_stats divides by number_plys
            main_raised' = Some("ZeroDivisionError") /\ main_pc' = "raised"
       ELSE UNCHANGED <<main_raised, main_pc>>
    /\ UNCHANGED <<program, pgn_games, player_arg, player_name,
                   games_to_analyze, listing, messages, engine_isfile,
                   exit_status>>
    /\ UNCHANGED notMainVars

\* after the loop.  cga.py: player.print_stats(), which formats cp_avg,
\* still the tuple of initialize_stats when no game was inserted, then
\* chess_engine.quit().  ap.py: chess_engine.quit(), the time per game
\* divided by len(all_games), then output_result, which divides by the
\* number of rows
finish ==
    /\ main_pc = "analysis"
    /\ games_done = Len(games_to_analyze)
    /\ IF program = "cga"
       THEN IF games_done = 0
            THEN /\ main_raised' = Some("ValueError")
                 /\ main_pc' = "raised"
                 /\ UNCHANGED engine
            ELSE /\ engine' = [engine EXCEPT !.quit = @ + 1]
                 /\ main_pc' = "done"
                 /\ UNCHANGED main_raised
       ELSE /\ engine' = [engine EXCEPT !.quit = @ + 1]
            /\ IF pgn_games = <<>> \/ no_plys
               THEN /\ main_raised' = Some("ZeroDivisionError")
                    /\ main_pc' = "raised"
               ELSE /\ main_pc' = "done"
                    /\ UNCHANGED main_raised
    /\ UNCHANGED <<program, pgn_games, player_arg, player_name,
                   games_to_analyze, listing, messages, engine_isfile,
                   games_done, no_plys, exit_status>>
    /\ UNCHANGED notMainVars

NextMain ==
    \/ find_player
    \/ create_engine
    \/ \E requests \in 0..1, some \in BOOLEAN :
          (some => requests > 0) /\ analyse_next_game(requests, some)
    \/ finish

SpecMain == InitMain /\ [][NextMain]_vars

-----------------------------------------------------------------------------
(* Claims about the player search *)

\* the same letter in any letter case
SameLetter(x, y) ==
    \/ x = y
    \/ <<x, y>> \in {<<"a", "A">>, <<"A", "a">>, <<"b", "B">>, <<"B", "b">>,
                     <<"c", "C">>, <<"C", "c">>}

\* string holds text somewhere, in any letter case
Contains(string, text) ==
    \E i \in 0..(Len(string) - Len(text)) :
        \A k \in 1..Len(text) : SameLetter(string[i + k], text[k])

\* the names in the games that hold the text asked for
Candidates ==
    {n \in {pgn_games[i].White : i \in DOMAIN pgn_games}
           \cup {pgn_games[i].Black : i \in DOMAIN pgn_games} :
        Contains(n, player_arg)}

-----------------------------------------------------------------------------
(* Claims about the steps of main *)

\* message was logged or printed
Logged(message) == \E i \in DOMAIN messages : messages[i] = message

\* C11: when no name in the games holds the text asked for, the run ends at
\* the player search as it does for several matches: no engine is started,
\* no game is analysed and no statistics or report step is run.
C11_NoPlayerExit ==
    (main_pc # "find_player" /\ Candidates = {}) =>
        /\ main_pc = "exited"
        /\ engine.opened = 0 /\ engine.go = 0
        /\ games_done = 0

\* a run that found no player and went on to start the engine
C11_Witness ==
    /\ Candidates = {}
    /\ pgn_games # <<>>
    /\ Logged("No player found.")
    /\ engine.opened = 1

\* C12: when the engine path names no existing file, the construction of
\* Engine reports it and ends the program with status 1: no subprocess is
\* ever spawned and no game is analysed.
C12_MissingEngineExit ==
    ~engine_isfile =>
        /\ engine.opened = 0 /\ engine.go = 0 /\ games_done = 0
        /\ (main_pc \notin {"find_player", "create_engine"}
            /\ ~Logged("Several players found:")) =>
               /\ main_pc = "exited"
               /\ exit_status = Some(1)
               /\ messages[Len(messages)] = "Engine does not exists."

\* a run with games to analyse that ended at the missing engine
C12_Witness ==
    /\ ~engine_isfile
    /\ games_to_analyze # <<>>
    /\ main_pc = "exited"
    /\ exit_status = Some(1)

\* the run has ended: normally, by sys.exit or by an exception
Ended == main_pc \in {"done", "exited", "raised"}

\* C13: a run that opens the engine opens it once, and when the run has
\* ended it has quit the engine exactly once; requests are made to an
\* engine that was opened.
C13_EngineLifecycle ==
    /\ engine.opened <= 1
    /\ engine.quit <= engine.opened
    /\ engine.go > 0 => engine.opened = 1
    /\ (Ended /\ engine.opened = 1) => engine.quit = 1

\* a run of cga.py that analysed a game and ended without quitting
C13_Witness ==
    /\ program = "cga"
    /\ Ended
    /\ engine.opened = 1 /\ engine.go > 0
    /\ engine.quit = 0

-----------------------------------------------------------------------------
(* chesscom.py: ChessCom._get_from_url.  A JSON document is the record the *)
(* parser makes of it; the games endpoints answer {'games': [...]}, each   *)
(* game with its last_activity and its fen.                                *)

\* most games in one answer of the server
MaxCcGames == 2

\* ARCHIVES_PATH, GAMES_PATH, GAMES_TO_MOVE_PATH, and '' for the profile
CcPaths == {"", "games/archives", "games", "games/to-move"}

CcGames ==
    {[last_activity |-> a, fen |-> f] : a \in {1, 2}, f \in {"fen1", "fen2"}}

RECURSIVE CcGameLists(_)
CcGameLists(n) ==
    IF n = 0 THEN {<<>>}
    ELSE LET shorter == CcGameLists(n - 1)
         IN  shorter \cup
             {Append(l, g) : l \in {m \in shorter : Len(m) = n - 1},
                             g \in CcGames}

\* what urlopen(url) and the reading of its answer can do: give a JSON
\* document, raise HTTPError (a status of 4xx or 5xx, with a body), raise
\* another URLError (no connection), or give text that is no JSON
CcResponses ==
    {[kind |-> "json", data |-> [games |-> l]] : l \in CcGameLists(MaxCcGames)}
    \cup {[kind |-> "HTTPError", body |-> b] : b \in {"not found", "gone"}}
    \cup {[kind |-> "URLError"], [kind |-> "not JSON"]}

InitChess ==
    /\ IdleDiff /\ IdleAnalyze /\ IdlePlayer /\ IdleAp /\ IdleMain
    /\ IdleFen
    /\ cc_path \in CcPaths
    /\ cc_response \in CcResponses
    /\ json_data = None
    /\ cc_printed = <<>>
    /\ cc_result = None
    /\ cc_pc = "call"

\* _get_from_url(url), the server doing response: what the call returns or
\* raises.  After except HTTPError the return reads json_data, which no
\* statement has bound; other exceptions have no except clause
ResultOf(response) ==
    IF response.kind = "json" THEN [returned |-> response.data]
    ELSE IF response.kind = "HTTPError" THEN Raise("UnboundLocalError")
    ELSE IF response.kind = "URLError" THEN Raise("URLError")
    ELSE Raise("ValueError")

\* what the call prints: print(ex.read()) in the except clause
PrintedBy(response) ==
    IF response.kind = "HTTPError" THEN <<response.body>> ELSE <<>>

\* lines 31-36: the try statement and the return
_get_from_url ==
    /\ cc_pc = "call"
    /\ cc_pc' = "done"
    /\ json_data' = IF cc_response.kind = "json"
                    THEN Some(cc_response.data) ELSE json_data
    /\ cc_printed' = cc_printed \o PrintedBy(cc_response)
    /\ cc_result' = ResultOf(cc_response)
    /\ UNCHANGED <<cc_path, cc_response>>
    /\ UNCHANGED notChessVars

NextChess == _get_from_url

SpecChess == InitChess /\ [][NextChess]_vars

-----------------------------------------------------------------------------
(* Claims about chesscom.py *)

\* C14: when the request fails with an HTTPError, _get_from_url catches
\* it and prints its body, and no exception escapes from the call.
C14_HTTPErrorCaught ==
    (cc_pc = "done" /\ cc_response.kind = "HTTPError") =>
        /\ cc_printed = <<cc_response.body>>
        /\ ~IsRaise(cc_result)

\* a call that met an HTTPError and printed its body
C14_Witness ==
    /\ cc_pc = "done"
    /\ cc_response.kind = "HTTPError"
    /\ cc_path = "games/to-move"
    /\ cc_printed = <<"not found">>

-----------------------------------------------------------------------------
(* chesscom.py: ChessCom.get_fen_to_move.  A game is known by its url; the *)
(* games/to-move answer lists url and last_activity of the games in which  *)
(* the user is to move, the games answer lists url, last_activity and fen  *)
(* of all the user's current games.                                        *)

\* the urls of the games: as many as the most games in one answer
GameUrls == 1..MaxCcGames

\* the values of last_activity (a time stamp)
Activities == {1, 2}

\* the FEN of the game with url u
FenOf(u) == <<"fen", u>>

ToMoveGames ==
    {[url |-> u, last_activity |-> a] : u \in GameUrls, a \in Activities}

CurrentGames ==
    {[url |-> u, last_activity |-> a, fen |-> FenOf(u)] :
        u \in GameUrls, a \in Activities}

\* lists of at most n games of the set G, no game (url) twice
RECURSIVE ListsOfGames(_, _)
ListsOfGames(G, n) ==
    IF n = 0 THEN {<<>>}
    ELSE LET shorter == ListsOfGames(G, n - 1)
         IN  shorter \cup
             {Append(l, g) :
                 l \in {m \in shorter : Len(m) = n - 1},
                 g \in G}

NoUrlTwice(l) == \A i, j \in DOMAIN l : i # j => l[i].url # l[j].url

\* what the server may do with a query for the games of the set G
FenResponses(G) ==
    {[kind |-> "json", data |-> [games |-> l]] :
        l \in {m \in ListsOfGames(G, MaxCcGames) : NoUrlTwice(m)}}
    \cup {[kind |-> "HTTPError", body |-> "not found"]}

\* lines 92-94, the inner loop: the fen of every game of games whose
\* last_activity is the one given, in the order of games
RECURSIVE FensWithActivity(_, _)
FensWithActivity(games, last_activity) ==
    IF games = <<>> THEN <<>>
    ELSE (IF Head(games).last_activity = last_activity
          THEN <<Head(games).fen>> ELSE <<>>)
         \o FensWithActivity(Tail(games), last_activity)

InitFen ==
    /\ IdleDiff /\ IdleAnalyze /\ IdlePlayer /\ IdleAp /\ IdleMain
    /\ IdleChess
    /\ to_move_response \in FenResponses(ToMoveGames)
    /\ current_response \in FenResponses(CurrentGames)
    /\ games_to_move = None /\ current_games = None
    /\ fen_to_move = <<>> /\ fen_index = 0
    /\ fen_printed = <<>> /\ fen_result = None
    /\ fen_pc = "read_games_to_move"

\* line 87: games_to_move = self.read_games_to_move()
read_games_to_move ==
    /\ fen_pc = "read_games_to_move"
    /\ fen_printed' = fen_printed \o PrintedBy(to_move_response)
    /\ LET got == ResultOf(to_move_response)
       IN  IF IsRaise(got)
           THEN /\ fen_result' = got
                /\ fen_pc' = "raised"
                /\ UNCHANGED games_to_move
           ELSE /\ games_to_move' = Some(got.returned)
                /\ fen_pc' = "read_current_games"
                /\ UNCHANGED fen_result
    /\ UNCHANGED <<to_move_response, current_response, current_games,
                   fen_to_move, fen_index>>
    /\ UNCHANGED notFenVars

\* lines 88-89: current_games = self.read_current_games(); fen_to_move = []
read_current_games ==
    /\ fen_pc = "read_current_games"
    /\ fen_printed' = fen_printed \o PrintedBy(current_response)
    /\ LET got == ResultOf(current_response)
       IN  IF IsRaise(got)
           THEN /\ fen_result' = got
                /\ fen_pc' = "raised"
                /\ UNCHANGED current_games
           ELSE /\ current_games' = Some(got.returned)
                /\ fen_pc' = "loop"
                /\ UNCHANGED fen_result
    /\ fen_to_move' = <<>>
    /\ UNCHANGED <<to_move_response, current_response, games_to_move,
                   fen_index>>
    /\ UNCHANGED notFenVars

\* lines 90-94: one turn of the outer loop, with its inner loop
FenNextGame ==
    /\ fen_pc = "loop"
    /\ fen_index < Len(Val(games_to_move).games)
    /\ LET game_to_move == Val(games_to_move).games[fen_index + 1]
       IN  fen_to_move' =
               fen_to_move \o FensWithActivity(Val(current_games).games,
                                               game_to_move.last_activity)
    /\ fen_index' = fen_index + 1
    /\ UNCHANGED <<to_move_response, current_response, games_to_move,
                   current_games, fen_printed, fen_result, fen_pc>>
    /\ UNCHANGED notFenVars

\* line 95: return fen_to_move
FenReturn ==
    /\ fen_pc = "loop"
    /\ fen_index = Len(Val(games_to_move).games)
    /\ fen_result' = [returned |-> fen_to_move]
    /\ fen_pc' = "done"
    /\ UNCHANGED <<to_move_response, current_response, games_to_move,
                   current_games, fen_to_move, fen_index, fen_printed>>
    /\ UNCHANGED notFenVars

NextFen ==
    \/ read_games_to_move
    \/ read_current_games
    \/ FenNextGame
    \/ FenReturn

SpecFen == InitFen /\ [][NextFen]_vars

-----------------------------------------------------------------------------
(* Claims about get_fen_to_move *)

\* the list fens holds, for each game of to_move in order, the fen that
\* the list current gives for the game of the same url
OneFenPerGame(fens, to_move, current) ==
    /\ Len(fens) = Len(to_move)
    /\ \A i \in DOMAIN to_move :
          \E j \in DOMAIN current :
              /\ current[j].url = to_move[i].url
              /\ fens[i] = current[j].fen

\* C22: get_fen_to_move returns exactly one FEN for each game in which the
\* user is to move, the FEN of that same game in the current-games list,
\* in the order of the games-to-move list, whatever the two answers are.
C22_OneFenPerGameToMove ==
    fen_pc = "done" =>
        OneFenPerGame(fen_result.returned, Val(games_to_move).games,
                      Val(current_games).games)

\* the two answers are of one moment: every game to move is among the
\* current games, with the same last_activity
SameMoment ==
    \A i \in DOMAIN Val(games_to_move).games :
        \E j \in DOMAIN Val(current_games).games :
            /\ Val(current_games).games[j].url =
                   Val(games_to_move).games[i].url
            /\ Val(current_games).games[j].last_activity =
                   Val(games_to_move).games[i].last_activity

\* one game to move, two current games of the same last_activity, and two
\* FENs returned
C22_Witness ==
    /\ fen_pc = "done"
    /\ SameMoment
    /\ Len(Val(games_to_move).games) = 1
    /\ Len(Val(current_games).games) = 2
    /\ Len(fen_result.returned) = 2

\* the part of C22 that the code keeps: when the answers are of one moment
\* and no two current games have the same last_activity, the FENs returned
\* are those of the games to move
OneFenWhenActivitiesDiffer ==
    (/\ fen_pc = "done"
     /\ SameMoment
     /\ \A i, j \in DOMAIN Val(current_games).games :
           i # j => Val(current_games).games[i].last_activity #
                    Val(current_games).games[j].last_activity)
    => OneFenPerGame(fen_result.returned, Val(games_to_move).games,
                     Val(current_games).games)

\* two games to move, among current games of different last_activity
OneFenWhenActivitiesDiffer_Witness ==
    /\ fen_pc = "done"
    /\ SameMoment
    /\ Len(Val(games_to_move).games) = 2
    /\ Len(fen_result.returned) = 2
    /\ fen_result.returned[1] # fen_result.returned[2]

====
